---- MODULE Spec2Model ----
(***************************************************************************)
(* Model of the YT Downloader Server (src/app.py): the two API handlers    *)
(* /api/info and /api/download, the two-rung download ladder               *)
(* (download_video_alternative, download_video_simple_fallback), the       *)
(* filename sanitizer clean_filename, and the files the downloads leave on *)
(* disk.                                                                   *)
(*                                                                         *)
(* Python values are encoded as follows.                                   *)
(*   - a str used as text (a title, a filename) is a sequence of           *)
(*     one-character strings; a str used as an opaque token (a url, a      *)
(*     format name, a dict key) is a TLA+ string;                          *)
(*   - an optional value is <<>> for None and <<v>> for the value v;       *)
(*   - a dict is a function from the keys it holds to their values;        *)
(*   - a path is a record [dir, uid, ext] standing for dir/uid.ext.        *)
(***************************************************************************)
EXTENDS Integers, Sequences, FiniteSets, TLC

\* ------------------------------------------------------------------ bounds

\* Longest title the extractor reports in the request model.
MaxTitleLen == 1
\* Longest prefix / suffix put around the padding of a sanitizer input.
MaxPrefix == 1
MaxSuffix == 3
\* Number of requests served in one run.
MaxRequests == 2

\* ------------------------------------------------------- python primitives

None == <<>>

Some(v) == <<v>>

\* dict.get(key, default), the result as an optional value.
DictGet(d, key, default) == IF key \in DOMAIN d THEN d[key] ELSE default

\* Python truthiness of an optional str: None and "" are falsy.
Falsy_EmptyOnly(o) == o # None /\ o[1] = ""

Falsy(o) == o = None \/ o[1] = ""

\* All sequences over S of length at most n.
SeqsUpTo(S, n) == UNION {[1..k -> S] : k \in 0..n}

\* str.strip(): the characters Python's str.isspace() accepts (ASCII part).
Whitespace == {" ", "\t", "\n", "\r", "\f"}

RECURSIVE lstrip(_)
lstrip(s) == IF s # <<>> /\ Head(s) \in Whitespace THEN lstrip(Tail(s)) ELSE s

RECURSIVE rstrip(_)
rstrip(s) ==
    IF s # <<>> /\ s[Len(s)] \in Whitespace THEN rstrip(SubSeq(s, 1, Len(s) - 1)) ELSE s

strip(s) == rstrip(lstrip(s))

\* --------------------------------------------------------- clean_filename

\* The character class of re.sub(r'[<>:"/\\|?*]', '', filename).
Forbidden == {"<", ">", ":", "\"", "/", "\\", "|", "?", "*"}

\* The truncation length of clean_filename.
MaxFilenameLen == 50

re_sub_forbidden(s) == SelectSeq(s, LAMBDA c : c \notin Forbidden)

\* A sanitizer that trims before it truncates (the last two steps swapped).
clean_filename_StripFirst(filename) ==
    LET removed == strip(re_sub_forbidden(filename))
    IN  IF Len(removed) > MaxFilenameLen THEN SubSeq(removed, 1, MaxFilenameLen) ELSE removed

clean_filename(filename) ==
    LET removed == re_sub_forbidden(filename)
        cut == IF Len(removed) > MaxFilenameLen THEN SubSeq(removed, 1, MaxFilenameLen)
               ELSE removed
    IN  strip(cut)

\* ------------------------------------------------------------- environment

\* The worker of the HTTP layer. It serves the requests one after another:
\* handlers share nothing but the files on disk, which are only ever added
\* under fresh names, and the uuid source.
Threads == {"w1"}

\* The `url` and `format` query parameters a client may send (or omit).
UrlValues == {"", "https://example.com/video123"}
FormatValues == {"mp4", "mp3", "avi", ""}

\* request.args: a dict holding the query parameters that were sent.
ArgDicts ==
    UNION {[K -> UrlValues \cup FormatValues] : K \in SUBSET {"url", "format"}}

RequestArgs ==
    {a \in ArgDicts : /\ ("url" \in DOMAIN a => a["url"] \in UrlValues)
                      /\ ("format" \in DOMAIN a => a["format"] \in FormatValues)}

\* str(e) of the exceptions yt-dlp raises.
ExtractorErrors == {"HTTP Error 403: Forbidden"}
\* str(e) of the exceptions send_file raises.
SendErrors == {"[Errno 2] No such file or directory"}
\* str(e) of the TypeError re.sub raises when the title is None.
TypeErrorMsg == "expected string or bytes-like object"

\* Titles the extractor may report: text over a small alphabet.
TitleAlphabet == {"a", " ", "?"}
Titles == SeqsUpTo(TitleAlphabet, MaxTitleLen)

\* The info dict of extract_info(url, download=False), with sample values:
\* all six keys get_video_info reads, all but one of them, or none.
InfoSample ==
    [title |-> "Test", description |-> "about", thumbnail |-> "http://img",
     duration |-> 42, uploader |-> "Chan", view_count |-> 7]

InfoKeySets ==
    {DOMAIN InfoSample, {}} \cup {DOMAIN InfoSample \ {k} : k \in DOMAIN InfoSample}

InfoDicts == {[k \in K |-> InfoSample[k]] : K \in InfoKeySets}

\* The container the extractor reports for a downloaded stream.
ExtsFor(format_type) == IF format_type = "mp3" THEN {"webm", "mp3"} ELSE {"mp4", "webm"}

\* The info dict of extract_info(url, download=True): `ext`, and `title`
\* absent, None or a str.
DownloadInfos(format_type) ==
    {[ext |-> e] : e \in ExtsFor(format_type)}
    \cup {[ext |-> e, title |-> t] :
            e \in ExtsFor(format_type), t \in {None} \cup {Some(s) : s \in Titles}}

\* What one extract_info(url, download=True) call can do: raise, leaving
\* nothing or a partial file behind, or return an info dict.
DownloadOutcomes(format_type) ==
    {[raised |-> TRUE, error |-> e, partial |-> w] : e \in ExtractorErrors, w \in BOOLEAN}
    \cup {[raised |-> FALSE, info |-> i] : i \in DownloadInfos(format_type)}

InfoOutcomes ==
    {[raised |-> TRUE, error |-> e] : e \in ExtractorErrors}
    \cup {[raised |-> FALSE, info |-> i] : i \in InfoDicts}

\* ------------------------------------------------------------------- state

VARIABLES
    pc,           \* per thread: where its handler stands
    endpoint,     \* per thread: the route of its request
    args,         \* per thread: request.args
    format_type,  \* per thread: download()'s local format_type
    info,         \* per thread: the info dict of the last successful extract_info
    result,       \* per thread: the dict the extractor function returned
    response,     \* per thread: the HTTP response
    attempts,     \* per thread: the extractor calls made, in order
    fs,           \* the files on disk
    nextId,       \* the source of uuid.uuid4()
    served,       \* the number of requests accepted so far
    cf_in,        \* sanitizer check: the input
    cf_out,       \* sanitizer check: clean_filename(cf_in)
    cf_again,     \* sanitizer check: clean_filename(cf_out)
    cf_pc         \* sanitizer check: "start", "once" or "twice"

vars == <<pc, endpoint, args, format_type, info, result, response, attempts, fs, nextId, served,
          cf_in, cf_out, cf_again, cf_pc>>

reqVars == <<pc, endpoint, args, format_type, info, result, response, attempts>>
cfVars == <<cf_in, cf_out, cf_again, cf_pc>>
sharedVars == <<fs, nextId>>
diskVars == <<fs, nextId, served>>

\* TEMP_DIR, created at start-up.
TEMP_DIR == "/tmp/downloads"

\* The directory of output_template = f"/tmp/{unique_id}.%(ext)s".
OutputDir == "/tmp"

NoResponse == [kind |-> "none"]

InitRequests ==
    /\ pc = [t \in Threads |-> "idle"]
    /\ endpoint = [t \in Threads |-> "none"]
    /\ args = [t \in Threads |-> <<>>]
    /\ format_type = [t \in Threads |-> "mp4"]
    /\ info = [t \in Threads |-> None]
    /\ result = [t \in Threads |-> None]
    /\ response = [t \in Threads |-> NoResponse]
    /\ attempts = [t \in Threads |-> <<>>]
    /\ fs = {}
    /\ nextId = 1
    /\ served = 0

Init ==
    /\ InitRequests
    /\ cf_in = <<>>
    /\ cf_out = <<>>
    /\ cf_again = <<>>
    /\ cf_pc = "twice"

\* ---------------------------------------------------------------- helpers

\* request.args.get(key, default), the result as an optional value.
ArgsGet(a, key, default) == IF key \in DOMAIN a THEN Some(a[key]) ELSE default

\* jsonify(body), status: a JSON response.
JsonResponse(status, body) == [kind |-> "json", status |-> status, body |-> body]

\* The body of both handlers' answer to a request without url.
UrlRequired == [success |-> FALSE, error |-> "URL parameter is required"]

FormatInvalid == [success |-> FALSE, error |-> "Format must be either mp4 or mp3"]

\* The text of a format name, as the f-string of download() spells it.
FormatChars(f) ==
    CASE f = "mp4" -> <<"m", "p", "4">>
      [] f = "mp3" -> <<"m", "p", "3">>
      [] OTHER -> <<f>>

\* `format_type not in ['mp4', 'mp3']`, negated.
ValidFormat_NonEmpty(f) == f # ""

ValidFormat(f) == f \in {"mp4", "mp3"}

\* The default of request.args.get('format', 'mp4').
DefaultFormat == "mp4"

\* uuid.uuid4(): an identifier no earlier call returned.
uuid4 == nextId

\* ---------------------------------------------------------- get_video_info

get_video_info_EmptyDefaults(o) ==
    IF o.raised THEN [success |-> FALSE, error |-> o.error]
    ELSE [success |-> TRUE,
          title |-> DictGet(o.info, "title", ""),
          description |-> DictGet(o.info, "description", ""),
          thumbnail |-> DictGet(o.info, "thumbnail", ""),
          duration |-> DictGet(o.info, "duration", 0),
          channel |-> DictGet(o.info, "uploader", ""),
          viewCount |-> DictGet(o.info, "view_count", 0)]

\* get_video_info(url), given what extract_info does: o.raised with o.error,
\* or o.info returned.
get_video_info(o) ==
    IF o.raised THEN [success |-> FALSE, error |-> o.error]
    ELSE [success |-> TRUE,
          title |-> DictGet(o.info, "title", "Unknown Title"),
          description |-> DictGet(o.info, "description", ""),
          thumbnail |-> DictGet(o.info, "thumbnail", ""),
          duration |-> DictGet(o.info, "duration", 0),
          channel |-> DictGet(o.info, "uploader", "Unknown Channel"),
          viewCount |-> DictGet(o.info, "view_count", 0)]

\* A worker takes a request when it is not in the middle of one.
Accepting(t) == pc[t] \in {"idle", "done"} /\ served < MaxRequests

\* The locals of a handler that has called no extractor.
FreshLocals(t) ==
    /\ info' = [info EXCEPT ![t] = None]
    /\ result' = [result EXCEPT ![t] = None]
    /\ attempts' = [attempts EXCEPT ![t] = <<>>]

\* GET /api/info: the whole handler.
VideoInfo(t) ==
    /\ Accepting(t)
    /\ served' = served + 1
    /\ \E a \in RequestArgs :
        LET url == ArgsGet(a, "url", None) IN
        /\ args' = [args EXCEPT ![t] = a]
        /\ endpoint' = [endpoint EXCEPT ![t] = "info"]
        /\ pc' = [pc EXCEPT ![t] = "done"]
        /\ IF Falsy(url)
           THEN /\ response' = [response EXCEPT ![t] = JsonResponse(400, UrlRequired)]
                /\ FreshLocals(t)
           ELSE \E o \in InfoOutcomes :
                /\ attempts' = [attempts EXCEPT ![t] =
                        <<[fn |-> "get_video_info", raised |-> o.raised]>>]
                /\ info' = [info EXCEPT ![t] = IF o.raised THEN None ELSE Some(o.info)]
                /\ result' = [result EXCEPT ![t] = Some(get_video_info(o))]
                /\ response' = [response EXCEPT ![t] = JsonResponse(200, get_video_info(o))]
    /\ UNCHANGED <<format_type, sharedVars, cfVars>>

\* ------------------------------------------------------------ /api/download

\* GET /api/download up to the call of the ladder: read the parameters and
\* validate them.
DownloadValidate(t) ==
    /\ Accepting(t)
    /\ served' = served + 1
    /\ FreshLocals(t)
    /\ \E a \in RequestArgs :
        LET url == ArgsGet(a, "url", None)
            fmt == ArgsGet(a, "format", Some(DefaultFormat))[1]
        IN
        /\ args' = [args EXCEPT ![t] = a]
        /\ endpoint' = [endpoint EXCEPT ![t] = "download"]
        /\ format_type' = [format_type EXCEPT ![t] = fmt]
        /\ IF Falsy(url)
           THEN /\ response' = [response EXCEPT ![t] = JsonResponse(400, UrlRequired)]
                /\ pc' = [pc EXCEPT ![t] = "done"]
           ELSE IF ~ValidFormat(fmt)
           THEN /\ response' = [response EXCEPT ![t] = JsonResponse(400, FormatInvalid)]
                /\ pc' = [pc EXCEPT ![t] = "done"]
           ELSE /\ response' = [response EXCEPT ![t] = NoResponse]
                /\ pc' = [pc EXCEPT ![t] = "primary"]
    /\ UNCHANGED <<sharedVars, cfVars>>

\* The default of info.get('title', 'download').
DefaultTitle == <<"d", "o", "w", "n", "l", "o", "a", "d">>

\* ydl.prepare_filename(info) under outtmpl = f"/tmp/{unique_id}.%(ext)s".
prepare_filename(unique_id, i) == [dir |-> OutputDir, uid |-> unique_id, ext |-> i.ext]

\* if format_type == 'mp3' and not downloaded_file.endswith('.mp3'):
\*     downloaded_file = downloaded_file.rsplit('.', 1)[0] + '.mp3'
Mp3Path(fmt, downloaded_file) ==
    IF fmt = "mp3" /\ downloaded_file.ext # "mp3"
    THEN [downloaded_file EXCEPT !.ext = "mp3"]
    ELSE downloaded_file

\* The files one extract_info(url, download=True) call leaves on disk: a
\* partial file when it raised midway, else the stream, which the
\* FFmpegExtractAudio postprocessor has turned into an mp3 for format mp3.
FilesLeft(unique_id, fmt, o) ==
    IF o.raised
    THEN IF o.partial THEN {[dir |-> OutputDir, uid |-> unique_id, ext |-> "part"]} ELSE {}
    ELSE {[dir |-> OutputDir, uid |-> unique_id,
           ext |-> IF fmt = "mp3" THEN "mp3" ELSE o.info.ext]}

\* The try block both rungs share: the dict it returns, or the exception
\* that leaves it (re.sub raises TypeError on a title that is None).
TryBlock(unique_id, fmt, o) ==
    IF o.raised THEN [raised |-> TRUE, error |-> o.error]
    ELSE LET title == DictGet(o.info, "title", Some(DefaultTitle)) IN
         IF title = None THEN [raised |-> TRUE, error |-> TypeErrorMsg]
         ELSE [raised |-> FALSE,
               value |-> [success |-> TRUE,
                          file_path |-> Mp3Path(fmt, prepare_filename(unique_id, o.info)),
                          title |-> clean_filename(title[1])]]

\* The dict download_video_simple_fallback returns from its except branch.
FallbackFailure(e) ==
    [success |-> FALSE,
     error |-> <<"Download failed: ", e, ". Railway IP may be blocked by YouTube.">>]

\* An except branch of the first rung that gives up instead of falling back.
PrimaryExcept_GiveUp(t, e) ==
    /\ pc' = [pc EXCEPT ![t] = "respond"]
    /\ result' = [result EXCEPT ![t] = Some(FallbackFailure(e))]

\* The except branch of download_video_alternative: log, then call
\* download_video_simple_fallback(url, format_type).
PrimaryExcept(t, e) ==
    /\ pc' = [pc EXCEPT ![t] = "fallback"]
    /\ result' = result

\* download_video_alternative up to its return or its call of the fallback.
PrimaryAttempt(t) ==
    /\ pc[t] = "primary"
    /\ LET unique_id == uuid4
           fmt == format_type[t]
       IN \E o \in DownloadOutcomes(fmt) :
          LET r == TryBlock(unique_id, fmt, o) IN
          /\ nextId' = nextId + 1
          /\ fs' = fs \cup FilesLeft(unique_id, fmt, o)
          /\ attempts' = [attempts EXCEPT ![t] =
                Append(@, [fn |-> "download_video_alternative",
                           unique_id |-> unique_id, raised |-> r.raised])]
          /\ info' = [info EXCEPT ![t] = IF o.raised THEN None ELSE Some(o.info)]
          /\ IF r.raised
             THEN PrimaryExcept(t, r.error)
             ELSE /\ pc' = [pc EXCEPT ![t] = "respond"]
                  /\ result' = [result EXCEPT ![t] = Some(r.value)]
    /\ UNCHANGED <<endpoint, args, format_type, response, served, cfVars>>

\* A fallback that writes to the path of the first rung again.
FallbackUniqueId_Reused(t) == attempts[t][1].unique_id

\* unique_id = str(uuid.uuid4()) of download_video_simple_fallback.
FallbackUniqueId(t) == uuid4

\* download_video_simple_fallback, called from the except branch of the
\* first rung.
FallbackAttempt(t) ==
    /\ pc[t] = "fallback"
    /\ LET unique_id == FallbackUniqueId(t)
           fmt == format_type[t]
       IN \E o \in DownloadOutcomes(fmt) :
          LET r == TryBlock(unique_id, fmt, o) IN
          /\ nextId' = nextId + 1
          /\ fs' = fs \cup FilesLeft(unique_id, fmt, o)
          /\ attempts' = [attempts EXCEPT ![t] =
                Append(@, [fn |-> "download_video_simple_fallback",
                           unique_id |-> unique_id, raised |-> r.raised])]
          /\ info' = [info EXCEPT ![t] = IF o.raised THEN None ELSE Some(o.info)]
          /\ result' = [result EXCEPT ![t] =
                Some(IF r.raised THEN FallbackFailure(r.error) ELSE r.value)]
          /\ pc' = [pc EXCEPT ![t] = "respond"]
    /\ UNCHANGED <<endpoint, args, format_type, response, served, cfVars>>

Mimetype_AlwaysVideo(fmt) == "video/mp4"

\* mimetype='video/mp4' if format_type == 'mp4' else 'audio/mpeg'
Mimetype(fmt) == IF fmt = "mp4" THEN "video/mp4" ELSE "audio/mpeg"

\* filename = f"{result['title']}.{format_type}"
DownloadName(title, fmt) == title \o <<".">> \o FormatChars(fmt)

\* send_file(path, as_attachment=True, download_name=..., mimetype=...)
\* when it succeeds.
send_file(path, download_name, mimetype) ==
    [kind |-> "file", status |-> 200, path |-> path, as_attachment |-> TRUE,
     download_name |-> download_name, mimetype |-> mimetype]

\* The except branch of download().
ServerError(e) == [success |-> FALSE, error |-> <<"Server error: ", e>>]

\* download() after the ladder has returned: answer 500 on a failure, else
\* send the file; send_file may raise (always, when the file is not on disk).
Respond(t) ==
    /\ pc[t] = "respond"
    /\ LET res == result[t][1] IN
       IF ~res.success
       THEN response' = [response EXCEPT ![t] = JsonResponse(500, res)]
       ELSE \/ /\ res.file_path \in fs
               /\ response' = [response EXCEPT ![t] =
                     send_file(res.file_path, DownloadName(res.title, format_type[t]),
                               Mimetype(format_type[t]))]
            \/ \E e \in SendErrors :
                  response' = [response EXCEPT ![t] = JsonResponse(500, ServerError(e))]
    /\ pc' = [pc EXCEPT ![t] = "done"]
    /\ UNCHANGED <<endpoint, args, format_type, info, result, attempts, diskVars, cfVars>>

Next ==
    \E t \in Threads :
        \/ VideoInfo(t)
        \/ DownloadValidate(t)
        \/ PrimaryAttempt(t)
        \/ FallbackAttempt(t)
        \/ Respond(t)

Spec == Init /\ [][Next]_vars

\* ------------------------------------------------- the sanitizer on its own

\* Sanitizer inputs: a short prefix, a run of one character whose length is
\* zero or close to the truncation length, and a short suffix.
SanitizerAlphabet == {"a", " ", "\t", "?"}
PadChars == {"a", " "}
PadLens == {0} \cup ((MaxFilenameLen - 2)..(MaxFilenameLen + 1))

Pad(c, k) == [i \in 1..k |-> c]

SanitizerInputs ==
    {p \o Pad(c, k) \o x :
        p \in SeqsUpTo(SanitizerAlphabet, MaxPrefix), c \in PadChars, k \in PadLens,
        x \in SeqsUpTo(SanitizerAlphabet, MaxSuffix)}

InitClean ==
    /\ InitRequests
    /\ cf_in \in SanitizerInputs
    /\ cf_out = <<>>
    /\ cf_again = <<>>
    /\ cf_pc = "start"

\* cf_out = clean_filename(cf_in)
ApplyClean ==
    /\ cf_pc = "start"
    /\ cf_out' = clean_filename(cf_in)
    /\ cf_pc' = "once"
    /\ UNCHANGED <<reqVars, diskVars, cf_in, cf_again>>

\* cf_again = clean_filename(cf_out)
ApplyAgain ==
    /\ cf_pc = "once"
    /\ cf_again' = clean_filename(cf_out)
    /\ cf_pc' = "twice"
    /\ UNCHANGED <<reqVars, diskVars, cf_in, cf_out>>

NextClean == ApplyClean \/ ApplyAgain

SpecClean == InitClean /\ [][NextClean]_vars

\* ------------------------------------------------------------------ claims

\* The request of worker t carries no url, or an empty one.
UrlMissing(t) == "url" \notin DOMAIN args[t] \/ args[t]["url"] = ""

IsDownload(t) == endpoint[t] = "download"
IsInfo(t) == endpoint[t] = "info"

\* The ladder of worker t's download request has returned.
LadderReturned(t) ==
    /\ IsDownload(t)
    /\ \/ pc[t] = "respond"
       \/ pc[t] = "done" /\ response[t].status # 400

C1_Rejected ==
    \A t \in Threads :
        (endpoint[t] # "none" /\ UrlMissing(t)) =>
            /\ pc[t] = "done"
            /\ response[t].kind = "json"
            /\ response[t].status = 400
            /\ response[t].body.success = FALSE
            /\ attempts[t] = <<>>
            /\ result[t] = None

C1_NoFileOnAccept ==
    \A t \in Threads :
        (served' # served /\ ("url" \notin DOMAIN args'[t] \/ args'[t]["url"] = "")) =>
            (fs' = fs /\ nextId' = nextId)

\* C1: a request to /api/info or /api/download without a url, or with an
\* empty one, is answered 400 whatever its format; no extractor function is
\* called for it and handling it creates no file.
C1_MissingUrl == [](C1_Rejected) /\ [][C1_NoFileOnAccept]_vars

C1_Witness ==
    \E t \in Threads :
        /\ IsDownload(t) /\ pc[t] = "done"
        /\ "url" \in DOMAIN args[t] /\ args[t]["url"] = ""
        /\ "format" \in DOMAIN args[t] /\ args[t]["format"] = "mp3"
        /\ response[t].status = 400

\* C2: a /api/download request with a url and a format other than mp4 and
\* mp3 is answered 400 before any download attempt; a request that omits
\* format runs the ladder with format mp4.
C2_InvalidFormat ==
    \A t \in Threads :
        (IsDownload(t) /\ ~UrlMissing(t)) =>
            /\ ("format" \in DOMAIN args[t] /\ args[t]["format"] \notin {"mp4", "mp3"}) =>
                  /\ pc[t] = "done"
                  /\ response[t].kind = "json"
                  /\ response[t].status = 400
                  /\ response[t].body.success = FALSE
                  /\ attempts[t] = <<>>
            /\ "format" \notin DOMAIN args[t] =>
                  /\ format_type[t] = "mp4"
                  /\ pc[t] \in {"primary", "fallback", "respond", "done"}
                  /\ pc[t] \in {"fallback", "respond", "done"} =>
                        /\ Len(attempts[t]) >= 1
                        /\ attempts[t][1].fn = "download_video_alternative"
                  /\ pc[t] = "done" => response[t].status # 400

C2_Witness ==
    \E t \in Threads :
        /\ IsDownload(t) /\ ~UrlMissing(t) /\ pc[t] = "done"
        /\ "format" \in DOMAIN args[t] /\ args[t]["format"] = "avi"
        /\ response[t].status = 400
        /\ attempts[t] = <<>>

\* C3: when the primary attempt succeeds the ladder returns its result and
\* the fallback is not run; when it raises, the fallback is run and the
\* ladder returns the fallback's result; when both raise, the ladder returns
\* one failure dict with an error and without a file path.
C3_Ladder ==
    \A t \in Threads :
        LadderReturned(t) =>
            LET a == attempts[t] IN
            /\ result[t] # None
            /\ Len(a) >= 1
            /\ a[1].fn = "download_video_alternative"
            /\ ~a[1].raised =>
                  /\ Len(a) = 1
                  /\ result[t][1].success
                  /\ result[t][1].file_path.uid = a[1].unique_id
            /\ a[1].raised =>
                  /\ Len(a) = 2
                  /\ a[2].fn = "download_video_simple_fallback"
                  /\ ~a[2].raised =>
                        /\ result[t][1].success
                        /\ result[t][1].file_path.uid = a[2].unique_id
                  /\ a[2].raised =>
                        /\ result[t][1].success = FALSE
                        /\ DOMAIN result[t][1] = {"success", "error"}

C3_Witness ==
    \E t \in Threads :
        /\ LadderReturned(t)
        /\ Len(attempts[t]) = 2
        /\ attempts[t][1].raised /\ attempts[t][2].raised
        /\ result[t][1].success = FALSE
        /\ \E f \in fs : f.uid = attempts[t][1].unique_id

\* The title the last extract_info of worker t reported, sanitized as the
\* ladder does it.
SanitizedTitle(t) ==
    clean_filename(IF "title" \in DOMAIN info[t][1] THEN info[t][1]["title"][1]
                   ELSE <<"d", "o", "w", "n", "l", "o", "a", "d">>)

\* C4: a validated download request is answered from the ladder's result: a
\* failure gives 500 with the failure dict as JSON; a success gives the file
\* as an attachment named <sanitized title>.<format>, of type video/mp4 for
\* mp4 and audio/mpeg for mp3; an error raised while sending gives 500 with
\* a JSON error body.
C4_Response ==
    \A t \in Threads :
        (LadderReturned(t) /\ pc[t] = "done") =>
            LET res == result[t][1]
                rsp == response[t]
            IN
            /\ ~res.success => rsp = [kind |-> "json", status |-> 500, body |-> res]
            /\ res.success =>
                  \/ /\ rsp.kind = "file"
                     /\ rsp.status = 200
                     /\ rsp.as_attachment
                     /\ rsp.path = res.file_path
                     /\ rsp.path \in fs
                     /\ rsp.download_name =
                            SanitizedTitle(t) \o <<".">> \o FormatChars(format_type[t])
                     /\ format_type[t] = "mp4" => rsp.mimetype = "video/mp4"
                     /\ format_type[t] = "mp3" => rsp.mimetype = "audio/mpeg"
                  \/ /\ rsp.kind = "json"
                     /\ rsp.status = 500
                     /\ rsp.body.success = FALSE
                     /\ "error" \in DOMAIN rsp.body

C4_Witness ==
    \E t \in Threads :
        /\ LadderReturned(t) /\ pc[t] = "done"
        /\ format_type[t] = "mp3"
        /\ response[t].kind = "file"
        /\ response[t].mimetype = "audio/mpeg"
        /\ response[t].download_name = <<"a", ".", "m", "p", "3">>

\* C5: every file a download attempt creates lies in the temp directory
\* TEMP_DIR (where a sweeper would find it).
C5_FilesInTempDir == \A f \in fs : f.dir = TEMP_DIR

\* C6: clean_filename is idempotent, its output is at most MaxFilenameLen
\* characters long, and its output holds no forbidden character.
C6_Sanitizer ==
    /\ cf_pc \in {"once", "twice"} =>
          /\ Len(cf_out) <= MaxFilenameLen
          /\ \A i \in 1..Len(cf_out) : cf_out[i] \notin Forbidden
    /\ cf_pc = "twice" => cf_again = cf_out

C6_Witness ==
    /\ cf_pc = "twice"
    /\ Len(cf_in) > MaxFilenameLen
    /\ \E i \in 1..Len(cf_in) : cf_in[i] \in Forbidden
    /\ \E i \in 1..Len(cf_in) : cf_in[i] \in Whitespace
    /\ Len(cf_out) = MaxFilenameLen
    /\ cf_again = cf_out

\* C7: clean_filename returns a non-empty string for every non-empty input
\* that holds a character outside the forbidden set.
C7_NonEmptyOutput ==
    (/\ cf_pc \in {"once", "twice"}
     /\ cf_in # <<>>
     /\ \E i \in 1..Len(cf_in) : cf_in[i] \notin Forbidden)
        => cf_out # <<>>

\* C8: a /api/info request with a url is answered 200 whether extract_info
\* returns or raises: the body holds success=true and the six fields, with
\* the placeholder for each field the extractor omitted, or success=false
\* and the error.
C8_Info ==
    \A t \in Threads :
        (IsInfo(t) /\ ~UrlMissing(t)) =>
            LET body == response[t].body IN
            /\ pc[t] = "done"
            /\ response[t].kind = "json"
            /\ response[t].status = 200
            /\ Len(attempts[t]) = 1
            /\ attempts[t][1].fn = "get_video_info"
            /\ attempts[t][1].raised =>
                  /\ DOMAIN body = {"success", "error"}
                  /\ body.success = FALSE
                  /\ body.error \in ExtractorErrors
            /\ ~attempts[t][1].raised =>
                  LET i == info[t][1]
                      Field(k, placeholder) == IF k \in DOMAIN i THEN i[k] ELSE placeholder
                  IN
                  /\ DOMAIN body = {"success", "title", "description", "thumbnail",
                                    "duration", "channel", "viewCount"}
                  /\ body.success = TRUE
                  /\ body.title = Field("title", "Unknown Title")
                  /\ body.description = Field("description", "")
                  /\ body.thumbnail = Field("thumbnail", "")
                  /\ body.duration = Field("duration", 0)
                  /\ body.channel = Field("uploader", "Unknown Channel")
                  /\ body.viewCount = Field("view_count", 0)

C8_Witness ==
    \E t \in Threads :
        /\ IsInfo(t) /\ ~UrlMissing(t) /\ pc[t] = "done"
        /\ ~attempts[t][1].raised
        /\ "title" \notin DOMAIN info[t][1]
        /\ "duration" \in DOMAIN info[t][1]
        /\ response[t].status = 200
        /\ response[t].body.title = "Unknown Title"
        /\ response[t].body.duration = 42

\* C9: a download request makes at most two extraction attempts, the primary
\* first and the fallback second, each at most once; the fallback runs only
\* after the primary has raised, and under an identifier that differs from
\* the primary's, so it writes to another path.
C9_AttemptOrder ==
    \A t \in Threads :
        IsDownload(t) =>
            LET a == attempts[t] IN
            /\ Len(a) <= 2
            /\ Len(a) >= 1 => a[1].fn = "download_video_alternative"
            /\ Len(a) = 2 =>
                  /\ a[2].fn = "download_video_simple_fallback"
                  /\ a[1].raised
                  /\ a[2].unique_id # a[1].unique_id
            /\ pc[t] = "fallback" => (Len(a) = 1 /\ a[1].raised)

C9_Witness ==
    \E t \in Threads :
        /\ IsDownload(t)
        /\ Len(attempts[t]) = 2
        /\ \E f \in fs : f.uid = attempts[t][1].unique_id /\ f.ext = "part"
        /\ \E f \in fs : f.uid = attempts[t][2].unique_id /\ f.ext # "part"

\* C10: when the extracted title consists of forbidden characters only, the
\* attachment name the download endpoint sends still has a non-empty base
\* name: it is never just ".mp4" or ".mp3".
C10_BaseNameNotEmpty ==
    \A t \in Threads :
        (/\ LadderReturned(t) /\ pc[t] = "done"
         /\ response[t].kind = "file"
         /\ "title" \in DOMAIN info[t][1]
         /\ info[t][1]["title"][1] # <<>>
         /\ \A i \in 1..Len(info[t][1]["title"][1]) :
                info[t][1]["title"][1][i] \in Forbidden)
            => response[t].download_name # <<".">> \o FormatChars(format_type[t])

====
